---- MODULE Spec2Model ----
(***************************************************************************)
(* Model of the buffered lastlog reader of alastlog (src/lllib.c) and of   *)
(* the kernel objects it talks to (one descriptor, one regular file).      *)
(*                                                                         *)
(* The file holds fileSize bytes; its record i is the bytes                *)
(* [i*LLSIZE, (i+1)*LLSIZE) and is written Rec(i) here, so that two        *)
(* different records are never equal.  llbuf is a sequence of NRECS slots  *)
(* (slot k of the C array is llbuf[k+1]).                                  *)
(*                                                                         *)
(* Arithmetic follows an LP64 build: int is 32 bits, size_t and off_t are  *)
(* 64 bits.  NRECS is 512 in the source and is scaled down here; every     *)
(* formula is written for an arbitrary NRECS.                              *)
(***************************************************************************)
EXTENDS Integers, Sequences, FiniteSets, TLC

\* ---------------------------------------------------------------- bounds
NRECS == 3              \* page capacity in records (512 in the source)
MaxPages == 2           \* the file holds at most MaxPages*NRECS + 1 whole records
MaxRec == 6             \* largest argument given to ll_seek

TailBytes == 5          \* size of a trailing partial record, when present
MaxWidth == 4           \* widest text field given to check_string
MaxChar == 2            \* text bytes are 0 (the terminator) .. MaxChar
MaxAccounts == 2        \* entries of the passwd database

\* ------------------------------------------------------------- constants
LLSIZE == 292           \* sizeof(struct lastlog): int32 + char[32] + char[256]
SECONDS_IN_DAY == 86400
NO == 0
YES == 1

\* --------------------------------------------------------- record values
Rec(i) == [kind |-> "rec", idx |-> i]          \* the file's record i
PartialRec(i) == [kind |-> "partial", idx |-> i] \* head of record i over stale bytes
ZeroRec == [kind |-> "zero", idx |-> 0]        \* zero-initialised static storage
Garbage == [kind |-> "oob", idx |-> 0]         \* bytes outside llbuf
LL_NULL == [kind |-> "null", idx |-> 0]        \* the null pointer

VARIABLES
    ll_fd,       \* static int ll_fd
    num_recs,    \* static int num_recs
    cur_rec,     \* static int cur_rec
    buf_start,   \* static int buf_start
    llbuf,       \* static char llbuf[NRECS * LLSIZE], as NRECS slots
    fdOpen,      \* kernel: is the descriptor held in ll_fd open
    filePos,     \* kernel: file offset of that descriptor
    fileSize,    \* kernel: size of the file in bytes
    crashed,     \* the process was killed by an out-of-bounds access
    last,        \* observation of the most recent call
    prev,        \* observation of the call before it
    run,         \* observation of a run of consecutive ll_read calls
    cs,          \* a call of check_string: its arguments and its result
    gl           \* get_log: its locals, its position, its input and output

vars == <<ll_fd, num_recs, cur_rec, buf_start, llbuf, fdOpen, filePos,
          fileSize, crashed, last, prev, run, cs, gl>>

window == <<buf_start, num_recs, cur_rec>>

FileSizes == { r * LLSIZE + t : r \in 0..(MaxPages * NRECS + 1), t \in {0, TailBytes} }
\* Arguments of ll_seek: every index up to MaxRec, and the negative values
\* on either side of the first page below zero.
SeekArgs == (0..MaxRec) \cup {0 - 1, 0 - NRECS}

Min(a, b) == IF a < b THEN a ELSE b
Max(a, b) == IF a > b THEN a ELSE b

\* C integer division truncates toward zero.
CDiv(a, b) == IF a >= 0 THEN a \div b ELSE 0 - ((0 - a) \div b)

\* Whole records of the file.
FileRecs == fileSize \div LLSIZE

\* ------------------------------------------------------- the call frame
\* The statics and the kernel state a call works on, with what it did so
\* far: nLseek/nRead/nClose count its system calls, lseekOff is the offset
\* it gave lseek, readErr says a read of it failed, zeroReload that a
\* reload of it left num_recs = 0, ret/rec are its return value.
Frame ==
    [ll_fd |-> ll_fd, num_recs |-> num_recs, cur_rec |-> cur_rec,
     buf_start |-> buf_start, llbuf |-> llbuf, fdOpen |-> fdOpen,
     filePos |-> filePos, nLseek |-> 0, nRead |-> 0, nClose |-> 0,
     lseekOff |-> 0, readErr |-> FALSE, zeroReload |-> FALSE,
     segv |-> FALSE, ret |-> 0, rec |-> LL_NULL]

\* ---------------------------------------------------------- system calls
\* read(ll_fd, llbuf, NRECS*LLSIZE): -1 on a closed descriptor or an I/O
\* error (err), else the bytes between the offset and the end of file,
\* at most one page.
SysReadAmt(m, err) ==
    IF ~m.fdOpen \/ err THEN 0 - 1
    ELSE Min(NRECS * LLSIZE, Max(0, fileSize - m.filePos))

\* The buffer after read stored amt bytes at its start: whole records,
\* then the head of one more record, the rest of the buffer untouched.
SysReadFill(m, amt) ==
    IF amt <= 0 THEN m.llbuf
    ELSE [k \in 1..NRECS |->
            IF k - 1 < amt \div LLSIZE
              THEN Rec((m.filePos \div LLSIZE) + k - 1)
            ELSE IF k - 1 = amt \div LLSIZE /\ amt % LLSIZE > 0
              THEN PartialRec((m.filePos \div LLSIZE) + k - 1)
            ELSE m.llbuf[k]]

\* lseek(ll_fd, offset, SEEK_SET) succeeds on an open descriptor for a
\* non-negative offset (EBADF, EINVAL otherwise).
SysLseekOk(m, offset) == m.fdOpen /\ offset >= 0

\* --------------------------------------------------------------- lllib.c
\* One step of the long division of the 64-bit value whose 16-bit limbs
\* (most significant first) are limbs, by d: the quotient limbs.
RECURSIVE LongDiv(_, _, _)
LongDiv(limbs, d, r) ==
    IF limbs = <<>> THEN <<>>
    ELSE LET cur == r * 65536 + Head(limbs)
         IN  <<cur \div d>> \o LongDiv(Tail(limbs), d, cur % d)

\* (int)((size_t)amt_read / LLSIZE): amt_read is converted to size_t, so
\* -1 becomes 2^64 - 1; the quotient is truncated to a 32-bit int.
RecsRead(amt_read) ==
    IF amt_read >= 0 THEN amt_read \div LLSIZE
    ELSE LET q == LongDiv(<<65535, 65535, 65535, 65535>>, LLSIZE, 0)
         IN  IF q[3] >= 32768 THEN (q[3] - 65536) * 65536 + q[4]
             ELSE q[3] * 65536 + q[4]

ll_reload(m, err) ==
    LET amt_read == SysReadAmt(m, err)
        n == RecsRead(amt_read)
    IN  [m EXCEPT !.llbuf = SysReadFill(m, amt_read),
                  !.filePos = IF amt_read > 0 THEN @ + amt_read ELSE @,
                  !.nRead = @ + 1,
                  !.readErr = (@ \/ amt_read < 0),
                  !.zeroReload = (@ \/ n = 0),
                  !.num_recs = n,
                  !.cur_rec = 0,
                  !.ret = n]

\* Variant: the test for a missing descriptor is left out.
NoFile_Skipped(fd) == FALSE

NoFile(fd) == fd = 0 - 1

\* ll_seek's "no seek needed" test.
SameRec(rec, cr) == rec = cr

\* ll_seek's "outside buffer" test.
OutsideBuffer(rec, bs, nr) == rec < bs \/ rec > (bs + nr - 1)

\* Variant: the offset of the record itself, not of its page.
SeekOffset_Unaligned(rec) == rec * LLSIZE

\* (rec / NRECS) * NRECS * LLSIZE, as off_t.
SeekOffset(rec) == CDiv(rec, NRECS) * NRECS * LLSIZE

\* (rec / NRECS) * NRECS
PageStart(rec) == CDiv(rec, NRECS) * NRECS

ll_seek(m, rec, err) ==
    IF NoFile(m.ll_fd) THEN [m EXCEPT !.ret = 0 - 1]
    ELSE IF SameRec(rec, m.cur_rec) THEN [m EXCEPT !.ret = 0]
    ELSE IF OutsideBuffer(rec, m.buf_start, m.num_recs) THEN
        LET offset == SeekOffset(rec)
            m1 == [m EXCEPT !.nLseek = @ + 1, !.lseekOff = offset]
        IN  IF ~SysLseekOk(m, offset) THEN [m1 EXCEPT !.ret = 0 - 1]
            ELSE LET m2 == ll_reload([m1 EXCEPT !.filePos = offset,
                                                !.buf_start = PageStart(rec)],
                                     err)
                 IN  IF m2.ret <= 0 THEN [m2 EXCEPT !.ret = 0 - 1]
                     ELSE [m2 EXCEPT !.cur_rec = rec - m2.buf_start, !.ret = 0]
    ELSE [m EXCEPT !.cur_rec = rec - m.buf_start, !.ret = 0]

\* ll_read's "first time being called" test.
FirstTime(bs, nr) == bs = 0 /\ nr = 0

\* Variant: the buffer counts as used up one record early.
AtEnd_OneEarly(cr, nr) == cr + 1 >= nr

\* ll_read's "at the end of the buffer" test.
AtEnd(cr, nr) == cr = nr

\* &llbuf[cur_rec * LLSIZE] dereferenced: a slot of the buffer, or, outside
\* the array, whatever the access produces (oob).
SlotAt(buf, cr, oob) == IF 0 <= cr /\ cr < NRECS THEN buf[cr + 1] ELSE oob

InBuffer(cr) == 0 <= cr /\ cr < NRECS

\* What an access outside llbuf can produce: a fault, or some bytes.
OobOutcomes == {"segv", "garbage"}

ll_read(m, err1, err2, oob) ==
    IF NoFile(m.ll_fd) THEN [m EXCEPT !.rec = LL_NULL]
    ELSE LET m1 == IF FirstTime(m.buf_start, m.num_recs)
                     THEN ll_reload(m, err1) ELSE m
             atEnd == AtEnd(m1.cur_rec, m1.num_recs)
             m2 == IF atEnd THEN ll_reload(m1, err2) ELSE m1
         IN  IF atEnd /\ m2.ret = 0 THEN [m2 EXCEPT !.rec = LL_NULL]
             ELSE IF ~InBuffer(m2.cur_rec) /\ oob = "segv"
               THEN [m2 EXCEPT !.segv = TRUE]
             ELSE [m2 EXCEPT
                     !.rec = SlotAt(m2.llbuf, m2.cur_rec, Garbage),
                     !.cur_rec = @ + 1]

\* open(fname, O_RDONLY) returns the lowest free descriptor.
NewFd == 3

\* Variant: the cursor of the earlier session is kept.
ll_open_KeepsCursor(m, ok) ==
    [m EXCEPT !.ll_fd = IF ok THEN NewFd ELSE 0 - 1,
              !.fdOpen = ok,
              !.filePos = 0,
              !.num_recs = 0,
              !.buf_start = 0,
              !.ret = IF ok THEN NewFd ELSE 0 - 1]

ll_open(m, ok) ==
    [m EXCEPT !.ll_fd = IF ok THEN NewFd ELSE 0 - 1,
              !.fdOpen = ok,
              !.filePos = 0,
              !.num_recs = 0,
              !.cur_rec = 0,
              !.buf_start = 0,
              !.ret = IF ok THEN NewFd ELSE 0 - 1]

ll_close(m) ==
    IF m.ll_fd # 0 - 1
      THEN [m EXCEPT !.nClose = @ + 1,
                     !.fdOpen = FALSE,
                     !.ret = IF m.fdOpen THEN 0 ELSE 0 - 1]
      ELSE [m EXCEPT !.ret = 0]

\* ----------------------------------------------------------- observation
\* What a caller and a system-call trace see of one call: the operation and
\* its argument, its result, its system calls, and the descriptor it found.
\* Of the call before it, only the operation, argument and result are kept.
Seen(op, arg, m) ==
    [op |-> op, arg |-> arg, ret |-> m.ret, rec |-> m.rec,
     nLseek |-> m.nLseek, nRead |-> m.nRead, nClose |-> m.nClose,
     lseekOff |-> m.lseekOff, readErr |-> m.readErr,
     zeroReload |-> m.zeroReload, fd |-> ll_fd, wasOpen |-> fdOpen]

NoCall ==
    [op |-> "none", arg |-> 0, ret |-> 0, rec |-> LL_NULL,
     nLseek |-> 0, nRead |-> 0, nClose |-> 0, lseekOff |-> 0,
     readErr |-> FALSE, zeroReload |-> FALSE, fd |-> 0 - 1, wasOpen |-> FALSE]

Brief(c) == [op |-> c.op, arg |-> c.arg, ret |-> c.ret]

\* A run of consecutive ll_read calls that began at a page boundary with
\* more than NRECS records of the file still unread: n calls so far, which
\* made reloads reads of the file; ok while every read succeeded; fromOpen
\* when the run began right after ll_open.
NoRun == [n |-> 0, reloads |-> 0, ok |-> FALSE, fromOpen |-> FALSE]
NewRun(fromOpen) == [n |-> 0, reloads |-> 0, ok |-> TRUE, fromOpen |-> fromOpen]

MoreThanAPage(m) == (fileSize - m.filePos) \div LLSIZE > NRECS

RunAfterRead(r, m) ==
    LET r1 == IF r.ok /\ r.n <= NRECS
                THEN [r EXCEPT !.n = @ + 1, !.reloads = @ + m.nRead,
                               !.ok = ~m.readErr]
                ELSE NoRun
    IN  IF (~r1.ok \/ r1.n = NRECS + 1) /\ ~m.readErr /\ m.fdOpen
           /\ m.cur_rec = NRECS /\ m.num_recs = NRECS /\ MoreThanAPage(m)
          THEN NewRun(FALSE)
          ELSE r1

\* The statics and the kernel state become those of the frame m.
Commit(m) ==
    /\ ll_fd' = m.ll_fd
    /\ num_recs' = m.num_recs
    /\ cur_rec' = m.cur_rec
    /\ buf_start' = m.buf_start
    /\ llbuf' = m.llbuf
    /\ fdOpen' = m.fdOpen
    /\ filePos' = m.filePos
    /\ crashed' = m.segv
    /\ UNCHANGED <<fileSize, cs>>

\* A call made from outside get_log leaves get_log's frame alone.
Standalone == UNCHANGED gl

\* ------------------------------------------------------------ alastlog.c
\* A char * argument: the null pointer, or a field of bytes.
NullStr == [null |-> TRUE, bytes |-> <<>>]
Field(b) == [null |-> FALSE, bytes |-> b]

\* The string literal "".
EmptyLiteral == [literal |-> TRUE, bytes |-> <<0>>]

\* Every field of w bytes.
RECURSIVE FieldsOf(_)
FieldsOf(w) ==
    IF w = 0 THEN {<<>>}
    ELSE {Append(b, c) : b \in FieldsOf(w - 1), c \in 0..MaxChar}

StrInputs == {NullStr} \cup {Field(b) : b \in UNION {FieldsOf(w) : w \in 1..MaxWidth}}

\* strlen: the bytes before the first terminator; one more than the array
\* holds when it has no terminator.
RECURSIVE CStrLen(_)
CStrLen(b) ==
    IF b = <<>> THEN 1
    ELSE IF Head(b) = 0 THEN 0
    ELSE 1 + CStrLen(Tail(b))

\* Variant: the field is returned as it is.
check_string_AsIs(str, size) ==
    IF str.null THEN EmptyLiteral ELSE [literal |-> FALSE, bytes |-> str.bytes]

check_string(str, size) ==
    IF str.null THEN EmptyLiteral
    ELSE IF str.bytes[size] # 0
      THEN [literal |-> FALSE, bytes |-> [str.bytes EXCEPT ![size] = 0]]
    ELSE [literal |-> FALSE, bytes |-> str.bytes]

\* A uid_t, 32 bits unsigned, as two 16-bit halves.
Uid(hi, lo) == [hi |-> hi, lo |-> lo]

\* (int)pw_uid: values of 2^31 and more become negative.
UidToInt(u) ==
    IF u.hi >= 32768 THEN (u.hi - 65536) * 65536 + u.lo
    ELSE u.hi * 65536 + u.lo

\* The accounts of the model: 0, 1, one on the second page, and 2^32 - 1.
Uids == {Uid(0, 0), Uid(0, 1), Uid(0, NRECS + 1), Uid(65535, 65535)}

\* struct passwd *: the null pointer, or an entry.
NoPw == [null |-> TRUE, pw_uid |-> Uid(0, 0)]
Pw(u) == [null |-> FALSE, pw_uid |-> u]

\* The passwd databases getpwent iterates over.
RECURSIVE PwDbs(_)
PwDbs(n) ==
    IF n = 0 THEN {<<>>}
    ELSE PwDbs(n - 1) \cup
         {Append(db, Pw(u)) : db \in {d \in PwDbs(n - 1) : Len(d) = n - 1},
                              u \in Uids}

\* getpwent(): the entry after the pos entries already returned, or null.
getpwent(db, pos) == IF pos < Len(db) THEN db[pos + 1] ELSE NoPw

\* time(&now).
Now == 20 * SECONDS_IN_DAY

\* ll_time of the file's records: all a day old, all ten days old, or
\* a day old, ten days old and never logged in by turns.
TimeLayouts == {"recent", "old", "mixed"}

FileTime(i, layout) ==
    IF layout = "recent" THEN Now - SECONDS_IN_DAY
    ELSE IF layout = "old" THEN Now - 10 * SECONDS_IN_DAY
    ELSE IF i % 3 = 0 THEN Now - SECONDS_IN_DAY
    ELSE IF i % 3 = 1 THEN Now - 10 * SECONDS_IN_DAY
    ELSE 0

\* lp->ll_time: of a record of the file (a partial record holds its time,
\* the first bytes), of zeroed storage, or, outside the buffer, any.  The
\* null pointer is never dereferenced; check_time takes 0 for it.
LlTimes(lp, layout) ==
    IF lp.kind \in {"zero", "null"} THEN {0}
    ELSE IF lp.kind = "oob"
      THEN {0, Now - SECONDS_IN_DAY, Now - 10 * SECONDS_IN_DAY}
    ELSE {FileTime(lp.idx, layout)}

\* The values -t gives days, and -1 for no -t.
DaysArgs == {0 - 1, 2, 30}

\* check_time, given what lp->ll_time holds.
check_time(lp, ll_time, days) ==
    IF days # 0 - 1
      THEN LET login == IF lp # LL_NULL THEN ll_time ELSE 0
               delta == Now - login
           IN  IF delta > SECONDS_IN_DAY * days THEN NO ELSE YES
      ELSE YES

\* What stdout receives: the line of headers, or the line of an entry.
HeaderLine == [kind |-> "headers", name |-> Uid(0, 0), rec |-> LL_NULL]
EntryLine(ep, lp) == [kind |-> "entry", name |-> ep.pw_uid, rec |-> lp]

\* Variant: the value of headers passed in is returned after printing.
show_info_KeepsHeaders(lp, ll_time, ep, days, headers, out) ==
    IF check_time(lp, ll_time, days) = NO
      THEN [headers |-> headers, out |-> out]
      ELSE [headers |-> headers,
            out |-> (IF headers = NO THEN Append(out, HeaderLine) ELSE out)
                    \o <<EntryLine(ep, lp)>>]

\* show_info: the value it returns and stdout after it.
show_info(lp, ll_time, ep, days, headers, out) ==
    IF check_time(lp, ll_time, days) = NO
      THEN [headers |-> headers, out |-> out]
      ELSE [headers |-> YES,
            out |-> (IF headers = NO THEN Append(out, HeaderLine) ELSE out)
                    \o <<EntryLine(ep, lp)>>]

\* The record of the file with the last byte of ll_line and of ll_host
\* overwritten by check_string.
CutRec(r) == [kind |-> "cut", idx |-> r.idx]

\* Variant: ll_read is called whatever ll_seek returned.
AfterSeek_AlwaysRead(ret) == "read"

\* get_log's branch on ll_seek's result: ll = NULL, or ll = ll_read().
AfterSeek(ret) == IF ret = 0 - 1 THEN "show" ELSE "read"

\* get_log's loop exit: break after the -u account, or no entry left.
AfterShow(user, next) == IF ~user.null \/ next.null THEN "close" ELSE "loop"

GlIdle ==
    [pc |-> "idle", user |-> NoPw, days |-> 0 - 1, entry |-> NoPw,
     ll |-> LL_NULL, headers |-> NO, pwdb |-> <<>>, pwpos |-> 0,
     out |-> <<>>, rv |-> 0, layout |-> "recent", unterminated |-> FALSE,
     nSeek |-> 0, nRead |-> 0, seekRet |-> 0, shown |-> 0, passed |-> 0,
     failed |-> 0, nClose |-> 0]

CsIdle == [pc |-> "idle", str |-> NullStr, size |-> 0, out |-> EmptyLiteral]

\* ---------------------------------------------------------------- actions
Init ==
    /\ cs = CsIdle
    /\ gl = GlIdle
    /\ ll_fd = 0 - 1
    /\ num_recs = 0
    /\ cur_rec = 0
    /\ buf_start = 0
    /\ llbuf = [k \in 1..NRECS |-> ZeroRec]
    /\ fdOpen = FALSE
    /\ filePos = 0
    /\ fileSize \in FileSizes
    /\ crashed = FALSE
    /\ last = NoCall
    /\ prev = Brief(NoCall)
    /\ run = NoRun

Open ==
    /\ ~crashed
    /\ \E ok \in BOOLEAN :
         LET m == ll_open(Frame, ok)
         IN  /\ Commit(m)
             /\ last' = Seen("open", 0, m)
             /\ run' = IF ok /\ MoreThanAPage(m) THEN NewRun(TRUE) ELSE NoRun
    /\ prev' = Brief(last)
    /\ Standalone

\* ll_seek(rec); Errs says whether a read of the file may fail.
Seek(Errs) ==
    /\ ~crashed
    /\ \E rec \in SeekArgs, err \in Errs :
         LET m == ll_seek(Frame, rec, err)
         IN  /\ err => m.readErr
             /\ Commit(m)
             /\ last' = Seen("seek", rec, m)
    /\ prev' = Brief(last)
    /\ run' = NoRun
    /\ Standalone

\* ll_read(); cur_rec is kept within the model's bounds.
ReadNext(Errs) ==
    /\ ~crashed
    /\ cur_rec <= MaxRec
    /\ \E err1 \in Errs, err2 \in Errs, oob \in OobOutcomes :
         LET m == ll_read(Frame, err1, err2, oob)
         IN  /\ err1 => FirstTime(buf_start, num_recs) /\ ~err2 /\ m.readErr
             /\ err2 => m.readErr
             /\ oob = "garbage" \/ m.segv
             /\ Commit(m)
             /\ last' = Seen("read", 0, m)
             /\ run' = RunAfterRead(run, m)
    /\ prev' = Brief(last)
    /\ Standalone

Close ==
    /\ ~crashed
    /\ LET m == ll_close(Frame)
       IN  /\ Commit(m)
           /\ last' = Seen("close", 0, m)
    /\ prev' = Brief(last)
    /\ run' = NoRun
    /\ Standalone

Next == Open \/ Seek(BOOLEAN) \/ ReadNext(BOOLEAN) \/ Close

Spec == Init /\ [][Next]_vars

\* The same program over a file whose reads never meet an I/O error (a read
\* on a closed descriptor still fails).
NextNoIOErr == Open \/ Seek({FALSE}) \/ ReadNext({FALSE}) \/ Close

SpecNoIOErr == Init /\ [][NextNoIOErr]_vars

\* check_string on its own: every field up to MaxWidth bytes, and the null
\* pointer, given with its width as show_info gives ll_line and ll_host.
InitStr ==
    /\ ll_fd = 0 - 1
    /\ num_recs = 0
    /\ cur_rec = 0
    /\ buf_start = 0
    /\ llbuf = [k \in 1..NRECS |-> ZeroRec]
    /\ fdOpen = FALSE
    /\ filePos = 0
    /\ fileSize = 0
    /\ crashed = FALSE
    /\ last = NoCall
    /\ prev = Brief(NoCall)
    /\ run = NoRun
    /\ gl = GlIdle
    /\ \E str \in StrInputs, w \in 1..MaxWidth :
         /\ str.null \/ Len(str.bytes) = w
         /\ cs = [pc |-> "call", str |-> str, size |-> w, out |-> EmptyLiteral]

CheckString ==
    /\ cs.pc = "call"
    /\ cs' = [cs EXCEPT !.pc = "ret", !.out = check_string(cs.str, cs.size)]
    /\ UNCHANGED <<ll_fd, num_recs, cur_rec, buf_start, llbuf, fdOpen,
                   filePos, fileSize, crashed, last, prev, run, gl>>

NextStr == CheckString

SpecStr == InitStr /\ [][NextStr]_vars

\* ------------------------------------------------------- get_log, stepwise
\* get_log's frame besides its locals: pwdb/pwpos are the passwd database
\* and getpwent's position in it, out is stdout, layout and unterminated
\* describe the file's records (their times; whether their text fields
\* fill their whole width); nSeek/nRead count the store calls made for the
\* current account, failed the ll_seek calls that returned -1, shown the
\* calls of show_info, passed those that check_time let through.
InitDriver ==
    /\ ll_fd = 0 - 1
    /\ num_recs = 0
    /\ cur_rec = 0
    /\ buf_start = 0
    /\ llbuf = [k \in 1..NRECS |-> ZeroRec]
    /\ fdOpen = FALSE
    /\ filePos = 0
    /\ fileSize \in FileSizes
    /\ crashed = FALSE
    /\ last = NoCall
    /\ prev = Brief(NoCall)
    /\ run = NoRun
    /\ cs = CsIdle
    /\ \E user \in {NoPw} \cup {Pw(u) : u \in Uids}, days \in DaysArgs,
          db \in PwDbs(MaxAccounts), layout \in TimeLayouts,
          unterminated \in BOOLEAN :
         /\ ~user.null => db = <<>>
         /\ gl = [GlIdle EXCEPT !.pc = "start", !.user = user, !.days = days,
                                !.pwdb = db, !.layout = layout,
                                !.unterminated = unterminated]

\* A call of the store made by get_log.
StoreCall(op, arg, m, r) ==
    /\ Commit(m)
    /\ last' = Seen(op, arg, m)
    /\ prev' = Brief(last)
    /\ run' = r

\* Lines 189-200: ll_open, exit(1) when it fails; else the first entry.
GlOpen ==
    /\ gl.pc = "start"
    /\ \E ok \in BOOLEAN :
         LET m == ll_open(Frame, ok)
             entry == IF gl.user.null THEN getpwent(gl.pwdb, 0) ELSE gl.user
         IN  /\ StoreCall("open", 0, m,
                          IF ok /\ MoreThanAPage(m) THEN NewRun(TRUE) ELSE NoRun)
             /\ gl' = IF m.ret = 0 - 1
                        THEN [gl EXCEPT !.pc = "exit"]
                        ELSE [gl EXCEPT !.entry = entry,
                                        !.headers = NO,
                                        !.pwpos = IF gl.user.null THEN 1 ELSE 0,
                                        !.pc = IF entry.null THEN "close"
                                               ELSE "loop"]

\* Lines 204-205: ll_seek(entry->pw_uid); ll = NULL when it fails.
GlSeek ==
    /\ gl.pc = "loop"
    /\ \E err \in BOOLEAN :
         LET m == ll_seek(Frame, UidToInt(gl.entry.pw_uid), err)
         IN  /\ err => m.readErr
             /\ StoreCall("seek", UidToInt(gl.entry.pw_uid), m, NoRun)
             /\ gl' = [gl EXCEPT !.nSeek = @ + 1,
                                 !.seekRet = m.ret,
                                 !.failed = IF m.ret = 0 - 1 THEN @ + 1 ELSE @,
                                 !.ll = IF m.ret = 0 - 1 THEN LL_NULL ELSE @,
                                 !.pc = AfterSeek(m.ret)]

\* Line 207: ll = ll_read().
GlRead ==
    /\ gl.pc = "read"
    /\ \E err1 \in BOOLEAN, err2 \in BOOLEAN, oob \in OobOutcomes :
         LET m == ll_read(Frame, err1, err2, oob)
         IN  /\ err1 => FirstTime(buf_start, num_recs) /\ ~err2 /\ m.readErr
             /\ err2 => m.readErr
             /\ oob = "garbage" \/ m.segv
             /\ StoreCall("read", 0, m, RunAfterRead(run, m))
             /\ gl' = [gl EXCEPT !.nRead = @ + 1,
                                 !.ll = m.rec,
                                 !.pc = IF m.segv THEN "killed" ELSE "show"]

\* Lines 209-214: show_info, then break or the next entry.  check_string
\* writes into the record printed: a terminator into the buffer's slot,
\* or, through a pointer outside the buffer, anywhere (segv or not).
GlShow ==
    /\ gl.pc = "show"
    /\ \E ll_time \in LlTimes(gl.ll, gl.layout), segv \in BOOLEAN :
         LET r == show_info(gl.ll, ll_time, gl.entry, gl.days, gl.headers, gl.out)
             printed == check_time(gl.ll, ll_time, gl.days) = YES
             next == IF gl.user.null THEN getpwent(gl.pwdb, gl.pwpos)
                     ELSE gl.entry
         IN  /\ segv => (printed /\ gl.ll.kind = "oob")
             /\ crashed' = segv
             /\ llbuf' = IF printed /\ gl.unterminated
                            /\ gl.ll.kind \in {"rec", "partial"}
                          THEN [llbuf EXCEPT ![cur_rec] = CutRec(gl.ll)]
                          ELSE llbuf
             /\ gl' = IF segv THEN [gl EXCEPT !.pc = "killed"]
                      ELSE [gl EXCEPT !.headers = r.headers,
                                      !.out = r.out,
                                      !.shown = @ + 1,
                                      !.passed = IF printed THEN @ + 1 ELSE @,
                                      !.nSeek = 0,
                                      !.nRead = 0,
                                      !.entry = next,
                                      !.pwpos = IF gl.user.null THEN @ + 1 ELSE @,
                                      !.pc = AfterShow(gl.user, next)]
    /\ UNCHANGED <<ll_fd, num_recs, cur_rec, buf_start, fdOpen, filePos,
                   fileSize, last, prev, run, cs>>

\* Lines 217-220: endpwent, return ll_close().
GlClose ==
    /\ gl.pc = "close"
    /\ LET m == ll_close(Frame)
       IN  /\ StoreCall("close", 0, m, NoRun)
           /\ gl' = [gl EXCEPT !.nClose = @ + 1, !.rv = m.ret, !.pc = "done"]

NextDriver == GlOpen \/ GlSeek \/ GlRead \/ GlShow \/ GlClose

SpecDriver == InitDriver /\ [][NextDriver]_vars

\* ================================================================ claims

\* C1: on an opened store, when ll_seek(t) returned success for t >= 0 and
\* the ll_read right after it returned a record, that record is the file's
\* record t.  Stated for the plainest case, t a whole record of the file, and
\* checked over a file whose reads never fail.
C1_SeekThenReadYieldsTarget ==
    (/\ prev.op = "seek" /\ prev.ret = 0 /\ prev.arg >= 0
     /\ prev.arg < FileRecs
     /\ last.op = "read" /\ last.wasOpen /\ ~crashed
     /\ last.rec # LL_NULL)
    => last.rec = Rec(prev.arg)

\* C2: for t >= 0 at or beyond the number of whole records of the file,
\* either ll_seek(t) fails or the ll_read right after it returns no record
\* (checked over a file whose reads never fail).
C2_PastEndYieldsNoRecord ==
    (/\ prev.op = "seek" /\ prev.arg >= FileRecs
     /\ last.op = "read" /\ last.wasOpen /\ ~crashed)
    => (prev.ret = 0 - 1 \/ last.rec = LL_NULL)

\* C3: in every reachable state 0 <= cur_rec <= num_recs <= NRECS.
C3_WindowInvariant ==
    0 <= cur_rec /\ cur_rec <= num_recs /\ num_recs <= NRECS

\* C4: after ll_seek(i) succeeded and ll_read returned record i, the call
\* ll_seek(i+1) makes no lseek and no read.
C4_SequentialNoReseek ==
    [][(/\ prev.op = "seek" /\ prev.ret = 0 /\ prev.arg >= 0
        /\ last.op = "read" /\ last.rec = Rec(prev.arg)
        /\ last'.op = "seek" /\ last'.arg = prev.arg + 1)
       => (last'.nLseek = 0 /\ last'.nRead = 0)]_vars

\* C5: whenever ll_seek(t), t >= 0, reloads, it has made exactly one lseek,
\* to byte floor(t/NRECS)*NRECS*LLSIZE, before its one read, and buf_start
\* is floor(t/NRECS)*NRECS; the records the read delivered are those of
\* the file from that index on.
C5_OffsetLaw ==
    (last.op = "seek" /\ last.arg >= 0 /\ last.nRead > 0)
    => /\ last.nLseek = 1 /\ last.nRead = 1
       /\ last.lseekOff = (last.arg \div NRECS) * NRECS * LLSIZE
       /\ buf_start = (last.arg \div NRECS) * NRECS
       /\ (~last.readErr /\ num_recs > 0)
            => llbuf[1] = Rec((last.arg \div NRECS) * NRECS)

\* Witness of C5: a seek into the middle of a page other than the first
\* has reloaded.
C5_Witness ==
    /\ last.op = "seek" /\ last.nRead > 0 /\ last.ret = 0
    /\ last.arg > NRECS /\ last.arg % NRECS # 0

\* C6: in a run of consecutive ll_read calls begun at a page boundary
\* (right after a successful ll_open, or once sequential reading has used
\* up a full page) with more than NRECS records of the file left, and in
\* which every read of the file succeeds, the first NRECS calls make one
\* read of the file in total and the (NRECS+1)th makes exactly one more.
C6_OneReloadPerPage ==
    run.ok => /\ (1 <= run.n /\ run.n <= NRECS) => run.reloads = 1
              /\ run.n = NRECS + 1 => run.reloads = 2

\* Witness of C6: a run begun where sequential reading had used up a page
\* has reached its (NRECS+1)th call.
C6_Witness ==
    run.ok /\ ~run.fromOpen /\ run.n = NRECS + 1 /\ last.op = "read"

\* The same for a run begun right after ll_open.
C6_WitnessFresh ==
    run.ok /\ run.fromOpen /\ run.n = NRECS + 1 /\ last.op = "read"

\* C7: once an ll_read has made a reload that yielded zero records, the
\* next ll_read returns no record and leaves buf_start, num_recs, cur_rec
\* and the file offset as they were.
C7_EofIsStable ==
    [][(/\ last.op = "read" /\ last.zeroReload /\ last.wasOpen
        /\ last'.op = "read")
       => (/\ last'.rec = LL_NULL /\ ~crashed'
           /\ window' = window /\ filePos' = filePos)]_vars

\* C8: with ll_fd = -1, ll_seek returns -1 and ll_read returns no record,
\* making no system call and leaving the statics, the buffer and the
\* kernel state alone.
C8_UnopenedIsInert ==
    [][(ll_fd = 0 - 1 /\ last'.op \in {"seek", "read"})
       => (/\ last'.op = "seek" => last'.ret = 0 - 1
           /\ last'.op = "read" => last'.rec = LL_NULL
           /\ last'.nLseek = 0 /\ last'.nRead = 0 /\ last'.nClose = 0
           /\ UNCHANGED <<ll_fd, window, llbuf, fdOpen, filePos, crashed>>)]_vars

\* Witness of C8: ll_seek and then ll_read were called with ll_fd = -1,
\* over a buffer an earlier session had filled.
C8_Witness ==
    /\ last.op = "read" /\ last.fd = 0 - 1 /\ last.rec = LL_NULL
    /\ prev.op = "seek" /\ prev.ret = 0 - 1
    /\ llbuf[1] # ZeroRec

\* C9: whenever ll_seek returns failure on an open descriptor, num_recs = 0
\* and cur_rec = 0.
C9_FailedSeekEmptiesWindow ==
    (last.op = "seek" /\ last.wasOpen /\ last.ret = 0 - 1)
    => (num_recs = 0 /\ cur_rec = 0)

\* C10: after a call whose reload met a read error, num_recs = 0 and
\* cur_rec = 0; that call, if ll_read, returned no record and, if ll_seek,
\* returned failure.
C10_ReadErrorIsZeroRecords ==
    last.readErr
    => /\ num_recs = 0 /\ cur_rec = 0
       /\ last.op = "read" => last.rec = LL_NULL
       /\ last.op = "seek" => last.ret = 0 - 1

\* C11: ll_close on a store that was never opened, whose open failed, or
\* that is already closed returns 0 and calls close on no descriptor.
C11_CloseIsIdempotent ==
    (last.op = "close" /\ ~last.wasOpen)
    => (last.ret = 0 /\ last.nClose = 0)

\* C12: right after a successful ll_open buf_start, num_recs and cur_rec
\* are 0, the file offset is 0 and the file has not been read or
\* positioned; the call after it reads the file only if it is ll_read or
\* an ll_seek to an index other than the cursor's.
C12_OpenResetsWindow ==
    /\ (last.op = "open" /\ last.ret # 0 - 1)
       => /\ window = <<0, 0, 0>> /\ filePos = 0 /\ fdOpen
          /\ last.nRead = 0 /\ last.nLseek = 0
    /\ (prev.op = "open" /\ prev.ret # 0 - 1 /\ last.nRead > 0)
       => (last.op = "read" \/ (last.op = "seek" /\ last.arg # 0))

\* Witness of C12: ll_open succeeded after an earlier session had read
\* into the buffer and moved the cursor.
C12_Witness ==
    /\ last.op = "open" /\ last.ret # 0 - 1
    /\ prev.op = "read" /\ llbuf[1] # ZeroRec

\* C14: on an open descriptor with 0 < num_recs <= NRECS, slot k of the
\* buffer holds the file's record buf_start + k for every k < num_recs
\* (checked over a file whose reads never fail).
C14_StartIndexNamesSlotZero ==
    (fdOpen /\ 0 < num_recs /\ num_recs <= NRECS)
    => \A k \in 0..(num_recs - 1) : llbuf[k + 1] = Rec(buf_start + k)

\* C15: every ll_seek on an open descriptor, whatever its argument,
\* returns failure or leaves 0 <= cur_rec <= NRECS.
C15_SeekKeepsCursorInBuffer ==
    (last.op = "seek" /\ last.wasOpen)
    => (last.ret = 0 - 1 \/ (0 <= cur_rec /\ cur_rec <= NRECS))

\* C16: no call makes more than one lseek or more than one read.
C16_OneReadPerCall ==
    last.nLseek <= 1 /\ last.nRead <= 1

\* C17: an ll_seek to an index inside the loaded window makes no lseek
\* and no read, leaves buf_start, num_recs, the buffer and the file offset
\* alone and sets cur_rec to the index minus buf_start.
C17_InWindowSeekOnlyMovesCursor ==
    [][(/\ ll_fd # 0 - 1 /\ fdOpen
        /\ last'.op = "seek"
        /\ buf_start <= last'.arg /\ last'.arg < buf_start + num_recs)
       => (/\ last'.nLseek = 0 /\ last'.nRead = 0 /\ last'.ret = 0
           /\ UNCHANGED <<buf_start, num_recs, llbuf, filePos>>
           /\ cur_rec' = last'.arg - buf_start)]_vars

\* C13: check_string returns the empty string for the null pointer;
\* otherwise it returns the field with its last byte, byte size-1, the
\* terminator and the bytes before it as they were, so the string it
\* returns is at most size-1 long.
C13_TruncationSafety ==
    cs.pc = "ret"
    => IF cs.str.null
         THEN cs.out.literal /\ CStrLen(cs.out.bytes) = 0
         ELSE /\ ~cs.out.literal
              /\ Len(cs.out.bytes) = cs.size
              /\ cs.out.bytes[cs.size] = 0
              /\ \A i \in 1..(cs.size - 1) : cs.out.bytes[i] = cs.str.bytes[i]
              /\ CStrLen(cs.out.bytes) <= cs.size - 1

\* Witness of C13: check_string returned for a field without a terminator
\* anywhere in it.
C13_Witness ==
    /\ cs.pc = "ret" /\ ~cs.str.null /\ cs.size > 1
    /\ \A i \in 1..cs.size : cs.str.bytes[i] # 0

\* C18: once ll_open succeeded, get_log calls ll_seek once for each account
\* and ll_read once exactly when that ll_seek succeeded; after a failed
\* ll_seek it shows the account with no record and goes on to the next;
\* it calls ll_close once, last of all, and returns what ll_close returned.
C18_DriverCallDiscipline ==
    /\ gl.pc = "loop" => (gl.nSeek = 0 /\ gl.nRead = 0)
    /\ gl.pc = "read" => (gl.nSeek = 1 /\ gl.nRead = 0 /\ gl.seekRet = 0)
    /\ gl.pc = "show"
       => /\ gl.nSeek = 1
          /\ gl.nRead = (IF gl.seekRet = 0 - 1 THEN 0 ELSE 1)
          /\ gl.seekRet = 0 - 1 => gl.ll = LL_NULL
          /\ last.op = (IF gl.seekRet = 0 - 1 THEN "seek" ELSE "read")
    /\ gl.pc \in {"loop", "read", "show", "close"} => gl.nClose = 0
    /\ gl.pc = "done"
       => /\ gl.nClose = 1 /\ last.op = "close" /\ gl.rv = last.ret
          /\ gl.shown = (IF gl.user.null THEN Len(gl.pwdb) ELSE 1)

\* Witness of C18: get_log returned after two accounts, the ll_seek of one
\* of which had failed.
C18_Witness ==
    gl.pc = "done" /\ gl.shown = 2 /\ gl.failed = 1 /\ gl.rv = 0

\* C19: stdout holds nothing while no entry has passed the time filter;
\* after that it holds one line of headers, first, then one line for each
\* entry that passed.
C19_HeadersOnceBeforeFirstEntry ==
    /\ Len(gl.out) = (IF gl.passed = 0 THEN 0 ELSE gl.passed + 1)
    /\ gl.out # <<>>
       => /\ gl.out[1] = HeaderLine
          /\ \A i \in 2..Len(gl.out) : gl.out[i].kind = "entry"

\* Witness of C19: with -t, the first account was filtered out and a
\* later one was printed, under the line of headers.
C19_Witness ==
    /\ gl.pc = "done" /\ gl.days # 0 - 1
    /\ gl.shown > gl.passed /\ gl.passed >= 1
    /\ gl.out[2].name # gl.pwdb[1].pw_uid

====
